---- MODULE Spec2Model ----
(***************************************************************************)
(* Career planning database (src/db.py) and its Tk shell (src/app.py).     *)
(*                                                                         *)
(* The store is four SQLite tables; every Database method opens a fresh    *)
(* connection with _connect() and runs its statements inside               *)
(* `with conn:` (commit on success, rollback on an exception).             *)
(*                                                                         *)
(* Text values (str in Python, TEXT in SQLite) are sequences of code       *)
(* points, so that formatting, strip() and ORDER BY are computed, not      *)
(* assumed.  SQL NULL / Python None is NULL (integer columns) or NULLTEXT  *)
(* (text columns).                                                         *)
(***************************************************************************)
EXTENDS Integers, Sequences, FiniteSets, TLC

VARIABLES
    scenarios,        \* table scenarios   : set of Scenario rows
    positions,        \* table positions   : set of Position rows
    employees,        \* table employees   : set of Employee rows
    assignments,      \* table assignments : set of Assignment rows
    sqlite_sequence,  \* AUTOINCREMENT counters, one per table
    today_year,       \* date.today().year
    last_call,        \* the last Database call the caller made, with its arguments
    last_error,       \* what that call raised to the caller ("" when it returned)
    scenario_id,      \* CareerPlannerApp.scenario_id
    scenario_tabs,    \* scenario ids of the tabs, left to right (scenario_tabs_tabs)
    positions_cache,  \* CareerPlannerApp._positions_cache : title -> id
    employees_cache,  \* CareerPlannerApp._employees_cache : full_name -> id
    position_tree,    \* iids shown in the Positions table, in display order
    employee_tree,    \* iids shown in the Employees table, in display order
    assignment_tree,  \* iids shown in the Assignments table, in display order
    chart_root,       \* the "Subchart Root" combo box text
    chart_tree,       \* items of the Org Chart tree view, in insertion order
    last_command,     \* the last shell command and how it ended
    conns,            \* per open connection: the move_employee call it is running
    write_lock,       \* the connection holding SQLite's write lock on the file
    last_start,       \* per employee: start_date of the last move that returned
    entries           \* what the entry fields held when the last command read them

dbvars    == <<scenarios, positions, employees, assignments, sqlite_sequence>>
shellvars == <<scenario_id, scenario_tabs, positions_cache, employees_cache,
               position_tree, employee_tree, assignment_tree,
               chart_root, chart_tree, last_command>>
auxvars   == <<conns, write_lock, last_start, entries>>
vars      == <<scenarios, positions, employees, assignments, sqlite_sequence,
               today_year, last_call, last_error,
               scenario_id, scenario_tabs, positions_cache, employees_cache,
               position_tree, employee_tree, assignment_tree,
               chart_root, chart_tree, last_command,
               conns, write_lock, last_start, entries>>

----------------------------------------------------------------------------
(* Bounds of the model *)

FirstYear      == 2024   \* the calendar year the run starts in
MaxNewYears    == 2      \* how many times the calendar year may advance
MaxYears       == 3      \* largest `years` argument of seed_quarter_scenarios
MaxAssignments == 2      \* rows ever inserted into assignments
MaxPositions   == 2      \* rows the shell ever inserts into positions
MaxEmployees   == 3      \* rows ever inserted into employees by the directory
MaxMoves       == 3      \* moves made before the assignments are listed
MaxLedger      == 4      \* moves made while the other rows are watched
RecursionLimit == 8      \* nested _insert_chart_node calls before CPython raises
                         \* RecursionError (sys.getrecursionlimit() is 1000 by
                         \* default; the model stops the same recursion sooner)

----------------------------------------------------------------------------
(* Values *)

NULL     == 0            \* None in an INTEGER column (rowids start at 1)
NULLTEXT == << -1 >>     \* None in a TEXT column (no string: code points are >= 0)

\* str.strip(): drop leading and trailing whitespace
RECURSIVE LStrip(_)
LStrip(s) == IF s # <<>> /\ Head(s) = 32 THEN LStrip(Tail(s)) ELSE s

RECURSIVE RStrip(_)
RStrip(s) == IF s # <<>> /\ s[Len(s)] = 32
             THEN RStrip(SubSeq(s, 1, Len(s) - 1)) ELSE s

strip(s) == RStrip(LStrip(s))

\* str(n) / f"{n}" for a non-negative int: decimal digits, most significant first
RECURSIVE Decimal(_)
Decimal(n) == IF n < 10 THEN <<48 + n>>
              ELSE Decimal(n \div 10) \o <<48 + (n % 10)>>

\* "%0<w>d"
RECURSIVE ZeroPad(_, _)
ZeroPad(s, w) == IF Len(s) >= w THEN s ELSE ZeroPad(<<48>> \o s, w)

\* datetime.date(year, month, day)
date(y, m, d) == [year |-> y, month |-> m, day |-> d]

\* date.isoformat(): "YYYY-MM-DD"
isoformat(d) == ZeroPad(Decimal(d.year), 4) \o <<45>> \o
                ZeroPad(Decimal(d.month), 2) \o <<45>> \o
                ZeroPad(Decimal(d.day), 2)

\* str < str in Python, BINARY collation in SQLite: code point by code point,
\* a proper prefix sorts first
RECURSIVE TextLess(_, _)
TextLess(a, b) ==
    IF b = <<>> THEN FALSE
    ELSE IF a = <<>> THEN TRUE
    ELSE IF Head(a) # Head(b) THEN Head(a) < Head(b)
    ELSE TextLess(Tail(a), Tail(b))

\* ORDER BY k1, k2 / Python tuple comparison on a pair of texts
PairLess(a1, a2, b1, b2) == TextLess(a1, b1) \/ (a1 = b1 /\ TextLess(a2, b2))

----------------------------------------------------------------------------
(* Arguments the callers pass (small sets) *)

EmployeeCodes == { <<69, 49>>, <<69, 50>> }                      \* "E1", "E2"
FullNames     == { <<65, 110, 110>> }                            \* "Ann"
StartDates    == { isoformat(date(2024, 1, 1)), isoformat(date(2024, 4, 1)) }
Titles        == { <<65>>, <<66>> }                              \* "A", "B"
Departments   == { <<88>>, <<89>> }                              \* "X", "Y"
ScenarioArgs  == { 1 }                   \* the first scenario seeding creates
EmployeeArgs  == { 1, 2 }                \* ids, whether or not a row has them
PositionArgs  == { 1, 2 }

----------------------------------------------------------------------------
(* The store *)

\* sqlite3.connect() without a PRAGMA: SQLite's foreign-key enforcement is a
\* per-connection setting that defaults to off.  _connect_and_init turns it on
\* for its own connection only; _connect, which every operation uses, does not.
foreign_keys == FALSE

\* INTEGER PRIMARY KEY AUTOINCREMENT: one more than the largest rowid ever used
NextId(seq, table) == seq[table] + 1

Row(table, id) == CHOOSE r \in table : r.id = id

Ids(table) == { r.id : r \in table }

\* dataclass Scenario / table scenarios
Scenario(id, name, year, quarter, start_date, end_date) ==
    [id |-> id, name |-> name, year |-> year, quarter |-> quarter,
     start_date |-> start_date, end_date |-> end_date]

\* dataclass Position / table positions
Position(id, sid, title, department, parent_position_id) ==
    [id |-> id, scenario_id |-> sid, title |-> title, department |-> department,
     parent_position_id |-> parent_position_id]

\* dataclass Employee / table employees
Employee(id, employee_code, full_name) ==
    [id |-> id, employee_code |-> employee_code, full_name |-> full_name]

\* dataclass Assignment / table assignments
Assignment(id, employee_id, position_id, start_date, end_date) ==
    [id |-> id, employee_id |-> employee_id, position_id |-> position_id,
     start_date |-> start_date, end_date |-> end_date]

Call(op, args) == [op |-> op, args |-> args]

\* connections that may be open on the file at the same time
Connections  == { 1, 2 }
NoConnection == 0

\* a connection that is not inside a `with` block
Idle == [pc |-> "idle", args |-> <<>>, undo |-> {}, undo_seq |-> 0]

\* a block that commits whatever its statements did, also when it raises
WithConnNoRollback(before, after, error) == after

\* `with self._connect() as conn:` -- sqlite3's context manager commits when the
\* block returns and rolls back when it raises; error "" means it returned
WithConn(before, after, error) == IF error = "" THEN after ELSE before

----------------------------------------------------------------------------
(* Database.seed_quarter_scenarios *)

\* the end date computed without the roll-over into January of the next year
QuarterParamsNoRollover(year, quarter) ==
    LET start_month == (quarter - 1) * 3 + 1
        start       == date(year, start_month, 1)
        end         == date(year, start_month + 3, 1)
    IN  << <<70, 89>> \o Decimal(year) \o <<32, 81>> \o Decimal(quarter),
           year, quarter, isoformat(start), isoformat(end) >>

\* the tuple appended for (year, quarter)
QuarterParams(year, quarter) ==
    LET start_month == (quarter - 1) * 3 + 1
        start       == date(year, start_month, 1)
        end         == IF start_month + 3 > 12
                       THEN date(year + 1, 1, 1)
                       ELSE date(year, start_month + 3, 1)
        end_date    == [end EXCEPT !.day = 1]
    IN  << <<70, 89>> \o Decimal(year) \o <<32, 81>> \o Decimal(quarter),
           year, quarter, isoformat(start), isoformat(end_date) >>

\* the list `scenarios` the two nested loops build, in order
SeedParams(current_year, years) ==
    [ i \in 1..(4 * years) |->
        QuarterParams(current_year + ((i - 1) \div 4), ((i - 1) % 4) + 1) ]

\* INSERT OR REPLACE: the row holding (year, quarter) is deleted and written anew
InsertOrReplaceScenario(tbl, p) ==
    [rows |-> { r \in tbl.rows : ~(r.year = p[2] /\ r.quarter = p[3]) } \cup
              { Scenario(tbl.seq + 1, p[1], p[2], p[3], p[4], p[5]) },
     seq  |-> tbl.seq + 1]

\* INSERT OR IGNORE INTO scenarios ...: a row whose (year, quarter) is taken
\* (UNIQUE(year, quarter)) is skipped, any other gets the next id
InsertOrIgnoreScenario(tbl, p) ==
    IF \E r \in tbl.rows : r.year = p[2] /\ r.quarter = p[3]
    THEN tbl
    ELSE [rows |-> tbl.rows \cup
                   { Scenario(tbl.seq + 1, p[1], p[2], p[3], p[4], p[5]) },
          seq  |-> tbl.seq + 1]

\* conn.executemany(sql, params): the statement once per tuple, in order
RECURSIVE ExecuteManyScenarios(_, _)
ExecuteManyScenarios(tbl, params) ==
    IF params = <<>> THEN tbl
    ELSE ExecuteManyScenarios(InsertOrIgnoreScenario(tbl, Head(params)), Tail(params))

SeedResult(rows, seq, current_year, years) ==
    ExecuteManyScenarios([rows |-> rows, seq |-> seq],
                         SeedParams(current_year, years))

seed_quarter_scenarios(years) ==
    LET out == SeedResult(scenarios, sqlite_sequence.scenarios, today_year, years)
    IN  /\ scenarios' = out.rows
        /\ sqlite_sequence' = [sqlite_sequence EXCEPT !.scenarios = out.seq]
        /\ last_call' = Call("seed_quarter_scenarios", <<years, today_year>>)
        /\ last_error' = ""
        /\ UNCHANGED <<positions, employees, assignments, today_year>>

\* the calendar year changes while the program runs
NewYear ==
    /\ today_year < FirstYear + MaxNewYears
    /\ today_year' = today_year + 1
    /\ UNCHANGED <<dbvars, last_call, last_error>>

----------------------------------------------------------------------------
(* Database: positions, employees, assignments *)

\* INSERT INTO positions (scenario_id, title, department, parent_position_id)
InsertPosition(rows, seq, sid, title, department, parent) ==
    IF \/ sid = NULL \/ title = NULLTEXT \/ department = NULLTEXT
       \/ foreign_keys /\ sid \notin Ids(scenarios)
       \/ foreign_keys /\ parent # NULL /\ parent \notin Ids(rows) \cup {seq + 1}
    THEN [error |-> "IntegrityError", rows |-> rows, seq |-> seq]
    ELSE [error |-> "",
          rows  |-> rows \cup { Position(seq + 1, sid, title, department, parent) },
          seq   |-> seq + 1]

add_position(sid, title, department, parent) ==
    LET ins == InsertPosition(positions, sqlite_sequence.positions,
                              sid, title, department, parent)
        out == WithConn([rows |-> positions, seq |-> sqlite_sequence.positions],
                        ins, ins.error)
    IN  /\ positions' = out.rows
        /\ sqlite_sequence' = [sqlite_sequence EXCEPT !.positions = out.seq]
        /\ last_call' = Call("add_position", <<sid, title, department, parent>>)
        /\ last_error' = ins.error
        /\ UNCHANGED <<scenarios, employees, assignments, today_year>>

\* the table declared without UNIQUE on employee_code
InsertEmployeeNoUnique(rows, seq, employee_code, full_name) ==
    IF employee_code = NULLTEXT \/ full_name = NULLTEXT
    THEN [error |-> "IntegrityError", rows |-> rows, seq |-> seq]
    ELSE [error |-> "",
          rows  |-> rows \cup { Employee(seq + 1, employee_code, full_name) },
          seq   |-> seq + 1]

\* INSERT INTO employees (employee_code, full_name); employee_code is UNIQUE
InsertEmployee(rows, seq, employee_code, full_name) ==
    IF \/ employee_code = NULLTEXT \/ full_name = NULLTEXT
       \/ \E r \in rows : r.employee_code = employee_code
    THEN [error |-> "IntegrityError", rows |-> rows, seq |-> seq]
    ELSE [error |-> "",
          rows  |-> rows \cup { Employee(seq + 1, employee_code, full_name) },
          seq   |-> seq + 1]

add_employee(employee_code, full_name) ==
    LET ins == InsertEmployee(employees, sqlite_sequence.employees,
                              employee_code, full_name)
        out == WithConn([rows |-> employees, seq |-> sqlite_sequence.employees],
                        ins, ins.error)
    IN  /\ employees' = out.rows
        /\ sqlite_sequence' = [sqlite_sequence EXCEPT !.employees = out.seq]
        /\ last_call' = Call("add_employee", <<employee_code, full_name>>)
        /\ last_error' = ins.error
        /\ UNCHANGED <<scenarios, positions, assignments, today_year>>

\* INSERT INTO assignments (employee_id, position_id, start_date, end_date)
InsertAssignment(rows, seq, employee_id, position_id, start_date, end_date) ==
    IF \/ employee_id = NULL \/ position_id = NULL \/ start_date = NULLTEXT
       \/ foreign_keys /\ employee_id \notin Ids(employees)
       \/ foreign_keys /\ position_id \notin Ids(positions)
    THEN [error |-> "IntegrityError", rows |-> rows, seq |-> seq]
    ELSE [error |-> "",
          rows  |-> rows \cup { Assignment(seq + 1, employee_id, position_id,
                                           start_date, end_date) },
          seq   |-> seq + 1]

add_assignment(employee_id, position_id, start_date, end_date) ==
    LET ins == InsertAssignment(assignments, sqlite_sequence.assignments,
                                employee_id, position_id, start_date, end_date)
        out == WithConn([rows |-> assignments, seq |-> sqlite_sequence.assignments],
                        ins, ins.error)
    IN  /\ assignments' = out.rows
        /\ sqlite_sequence' = [sqlite_sequence EXCEPT !.assignments = out.seq]
        /\ last_call' = Call("add_assignment",
                             <<employee_id, position_id, start_date, end_date>>)
        /\ last_error' = ins.error
        /\ UNCHANGED <<scenarios, positions, employees, today_year>>

\* the UPDATE written with `end_date = NULL`, which no row satisfies in SQL
CloseOpenEqNull(rows, start_date, employee_id) ==
    { IF a.employee_id = employee_id /\ FALSE
      THEN [a EXCEPT !.end_date = start_date]
      ELSE a : a \in rows }

\* the UPDATE without `employee_id = ?`: every open row is closed
CloseOpenOfEveryone(rows, start_date, employee_id) ==
    { IF a.end_date = NULLTEXT
      THEN [a EXCEPT !.end_date = start_date]
      ELSE a : a \in rows }

\* the UPDATE without `end_date IS NULL`: the employee's closed rows get the
\* new end_date too
CloseOpenAndClosed(rows, start_date, employee_id) ==
    { IF a.employee_id = employee_id
      THEN [a EXCEPT !.end_date = start_date]
      ELSE a : a \in rows }

\* UPDATE assignments SET end_date = ? WHERE employee_id = ? AND end_date IS NULL
CloseOpen(rows, start_date, employee_id) ==
    { IF a.employee_id = employee_id /\ a.end_date = NULLTEXT
      THEN [a EXCEPT !.end_date = start_date]
      ELSE a : a \in rows }

\* the two statements in the other order: the UPDATE also closes the new row
MoveStatementsInsertFirst(rows, seq, employee_id, new_position_id, start_date) ==
    LET ins == InsertAssignment(rows, seq, employee_id, new_position_id,
                                start_date, NULLTEXT)
    IN  [ins EXCEPT !.rows = CloseOpen(ins.rows, start_date, employee_id)]

\* the two statements of move_employee, on the connection's view of the table
MoveStatements(rows, seq, employee_id, new_position_id, start_date) ==
    InsertAssignment(CloseOpen(rows, start_date, employee_id), seq,
                     employee_id, new_position_id, start_date, NULLTEXT)

move_employee(employee_id, new_position_id, start_date) ==
    LET run == MoveStatements(assignments, sqlite_sequence.assignments,
                              employee_id, new_position_id, start_date)
        out == WithConn([rows |-> assignments, seq |-> sqlite_sequence.assignments],
                        run, run.error)
    IN  /\ assignments' = out.rows
        /\ sqlite_sequence' = [sqlite_sequence EXCEPT !.assignments = out.seq]
        /\ last_call' = Call("move_employee",
                             <<employee_id, new_position_id, start_date>>)
        /\ last_error' = run.error
        /\ UNCHANGED <<scenarios, positions, employees, today_year>>

\* move_employee on connection c, statement by statement.  While a connection
\* is inside its transaction, `assignments` is the table as that connection
\* sees it and `undo` what a rollback restores.

\* a file without locking: any connection may write at any time
CanWriteUnlocked(lock, c) == TRUE

\* SQLite lets a connection start writing only when no other connection holds
\* the write lock of the file
CanWrite(lock, c) == lock \in {NoConnection, c}

\* `with self._connect() as conn:` and the UPDATE: sqlite3 begins a transaction
\* before the statement, and the statement takes the write lock
move_update(c, employee_id, new_position_id, start_date) ==
    /\ conns[c].pc = "idle"
    /\ CanWrite(write_lock, c)
    /\ write_lock' = c
    /\ conns' = [conns EXCEPT ![c] =
                   [pc |-> "updated",
                    args |-> <<employee_id, new_position_id, start_date>>,
                    undo |-> assignments,
                    undo_seq |-> sqlite_sequence.assignments]]
    /\ assignments' = CloseOpen(assignments, start_date, employee_id)
    /\ UNCHANGED <<scenarios, positions, employees, sqlite_sequence, today_year,
                   last_call, last_error>>

\* the UPDATE of a connection that finds the file locked and gives up when its
\* busy timeout (5 s by default) runs out: OperationalError, nothing written
move_busy(c, employee_id, new_position_id, start_date) ==
    /\ conns[c].pc = "idle"
    /\ ~CanWrite(write_lock, c)
    /\ last_call' = Call("move_employee",
                         <<employee_id, new_position_id, start_date>>)
    /\ last_error' = "OperationalError"
    /\ UNCHANGED <<dbvars, today_year, conns, write_lock>>

\* the INSERT and the end of the `with` block: commit, or rollback when the
\* INSERT raised; either way the write lock is given up
move_insert(c) ==
    /\ conns[c].pc = "updated"
    /\ LET args == conns[c].args
           ins  == InsertAssignment(assignments, sqlite_sequence.assignments,
                                    args[1], args[2], args[3], NULLTEXT)
           out  == WithConn([rows |-> conns[c].undo, seq |-> conns[c].undo_seq],
                            ins, ins.error)
       IN  /\ assignments' = out.rows
           /\ sqlite_sequence' = [sqlite_sequence EXCEPT !.assignments = out.seq]
           /\ last_call' = Call("move_employee", args)
           /\ last_error' = ins.error
    /\ conns' = [conns EXCEPT ![c] = Idle]
    /\ write_lock' = NoConnection
    /\ UNCHANGED <<scenarios, positions, employees, today_year>>

\* DELETE FROM positions WHERE id = ?   (parent_position_id ... ON DELETE SET NULL,
\* assignments.position_id ... ON DELETE CASCADE: acted on only by a connection
\* that enforces foreign keys)
DeletePositionRows(rows, position_id) ==
    IF foreign_keys
    THEN { IF r.parent_position_id = position_id /\ position_id \in Ids(rows)
           THEN [r EXCEPT !.parent_position_id = NULL]
           ELSE r : r \in { q \in rows : q.id # position_id } }
    ELSE { r \in rows : r.id # position_id }

CascadePosition(rows, position_id) ==
    IF foreign_keys /\ position_id \in Ids(positions)
    THEN { a \in rows : a.position_id # position_id }
    ELSE rows

delete_position(position_id) ==
    /\ positions' = DeletePositionRows(positions, position_id)
    /\ assignments' = CascadePosition(assignments, position_id)
    /\ last_call' = Call("delete_position", <<position_id>>)
    /\ last_error' = ""
    /\ UNCHANGED <<scenarios, employees, sqlite_sequence, today_year>>

\* DELETE FROM employees WHERE id = ?   (assignments.employee_id ... ON DELETE
\* CASCADE, under the same condition)
CascadeEmployee(rows, employee_id) ==
    IF foreign_keys /\ employee_id \in Ids(employees)
    THEN { a \in rows : a.employee_id # employee_id }
    ELSE rows

\* a delete that raises when no row matched (cursor.rowcount = 0)
DeleteEmployeeMustMatch(employee_id) ==
    /\ employees' = { r \in employees : r.id # employee_id }
    /\ assignments' = CascadeEmployee(assignments, employee_id)
    /\ last_call' = Call("delete_employee", <<employee_id>>)
    /\ last_error' = IF employee_id \in Ids(employees) THEN "" ELSE "LookupError"
    /\ UNCHANGED <<scenarios, positions, sqlite_sequence, today_year>>

delete_employee(employee_id) ==
    /\ employees' = { r \in employees : r.id # employee_id }
    /\ assignments' = CascadeEmployee(assignments, employee_id)
    /\ last_call' = Call("delete_employee", <<employee_id>>)
    /\ last_error' = ""
    /\ UNCHANGED <<scenarios, positions, sqlite_sequence, today_year>>

\* a delete that hands the employee back to the assignment the deleted one
\* had closed
DeleteAssignmentReopens(assignment_id) ==
    /\ assignments' =
          { IF \E d \in assignments :
                  /\ d.id = assignment_id
                  /\ d.employee_id = a.employee_id
                  /\ d.start_date = a.end_date
            THEN [a EXCEPT !.end_date = NULLTEXT]
            ELSE a : a \in { b \in assignments : b.id # assignment_id } }
    /\ last_call' = Call("delete_assignment", <<assignment_id>>)
    /\ last_error' = ""
    /\ UNCHANGED <<scenarios, positions, employees, sqlite_sequence, today_year>>

\* DELETE FROM assignments WHERE id = ?
delete_assignment(assignment_id) ==
    /\ assignments' = { a \in assignments : a.id # assignment_id }
    /\ last_call' = Call("delete_assignment", <<assignment_id>>)
    /\ last_error' = ""
    /\ UNCHANGED <<scenarios, positions, employees, sqlite_sequence, today_year>>

----------------------------------------------------------------------------
(* Database: the queries *)

\* what a SELECT ... ORDER BY may return: the rows in ascending order; rows that
\* compare equal come in an order SQL does not fix.  Built front to back: any
\* row that none of the remaining rows precedes may come next.  `less` is the
\* ORDER BY clause, as a function on pairs of rows.
OrderBy(S, less) ==
    LET ord[T \in SUBSET S] ==
          IF T = {} THEN { <<>> }
          ELSE UNION { { <<m>> \o rest : rest \in ord[T \ {m}] } :
                       m \in { r \in T : \A q \in T : ~less[q, r] } }
    IN  ord[S]

ByYearQuarter(a, b) ==
    a.year < b.year \/ (a.year = b.year /\ a.quarter < b.quarter)

ByDepartmentTitle(a, b) == PairLess(a.department, a.title, b.department, b.title)

ByTitleDepartment(a, b) == PairLess(a.title, a.department, b.title, b.department)

ByFullName(a, b) == TextLess(a.full_name, b.full_name)

ByStartDateDesc(a, b) == TextLess(b.start_date, a.start_date)

\* Each query is given the tables as the connection that runs it sees them.

\* SELECT ... FROM scenarios ORDER BY year, quarter
list_scenarios(rows) ==
    OrderBy(rows, [q, r \in rows |-> ByYearQuarter(q, r)])

\* the query written with ORDER BY title, department
ListPositionsByTitle(rows, sid) ==
    LET found == { r \in rows : r.scenario_id = sid }
    IN  OrderBy(found, [q, r \in found |-> ByTitleDepartment(q, r)])

\* SELECT ... FROM positions WHERE scenario_id = ? ORDER BY department, title
list_positions(rows, sid) ==
    LET found == { r \in rows : r.scenario_id = sid }
    IN  OrderBy(found, [q, r \in found |-> ByDepartmentTitle(q, r)])

\* SELECT ... FROM employees ORDER BY full_name
list_employees(rows) ==
    OrderBy(rows, [q, r \in rows |-> ByFullName(q, r)])

\* the query without its WHERE clause: every assignment that has a position
ListAssignmentsAnyScenario(rows, position_rows, sid) ==
    LET found == { a \in rows : \E r \in position_rows : r.id = a.position_id }
    IN  OrderBy(found, [q, r \in found |-> ByStartDateDesc(q, r)])

\* SELECT a.* FROM assignments a JOIN positions p ON a.position_id = p.id
\* WHERE p.scenario_id = ? ORDER BY a.start_date DESC
list_assignments(rows, position_rows, sid) ==
    LET found == { a \in rows :
                     \E r \in position_rows :
                         r.id = a.position_id /\ r.scenario_id = sid }
    IN  OrderBy(found, [q, r \in found |-> ByStartDateDesc(q, r)])

----------------------------------------------------------------------------
(* CareerPlannerApp *)

FullOrgChart ==      \* "(Full Org Chart)"
    <<40, 70, 117, 108, 108, 32, 79, 114, 103, 32, 67, 104, 97, 114, 116, 41>>

Command(name, outcome) == [name |-> name, outcome |-> outcome]

\* dict.get(key): None when the key is absent
Get(mapping, key) == IF key \in DOMAIN mapping THEN mapping[key] ELSE NULL

\* _combo_value_to_id
combo_value_to_id(value, mapping) ==
    IF strip(value) = <<>> THEN NULL ELSE Get(mapping, strip(value))

\* {row.<name>: row.id for row in rows}: a later row replaces an earlier one
\* under the same key
DictById(keys) ==
    [ k \in { keys[i][1] : i \in DOMAIN keys } |->
        LET last == CHOOSE i \in DOMAIN keys :
                        /\ keys[i][1] = k
                        /\ \A j \in DOMAIN keys : keys[j][1] = k => j <= i
        IN  keys[last][2] ]

PositionsCache(lst) == DictById([ i \in DOMAIN lst |-> <<lst[i].title, lst[i].id>> ])

EmployeesCache(lst) == DictById([ i \in DOMAIN lst |-> <<lst[i].full_name, lst[i].id>> ])

IidsOf(lst) == [ i \in DOMAIN lst |-> lst[i].id ]

\* f"{department} ({title})"
LabelSwapped(position) ==
    position.department \o <<32, 40>> \o position.title \o <<41>>

\* f"{position.title} ({position.department})"
Label(position) ==
    position.title \o <<32, 40>> \o position.department \o <<41>>

\* list.sort(key=...) is stable: x goes behind every element that is not greater
RECURSIVE InsertSorted(_, _, _)
InsertSorted(sorted, x, by_id) ==
    IF sorted = <<>> THEN <<x>>
    ELSE IF ByDepartmentTitle(by_id[x], by_id[Head(sorted)])
         THEN <<x>> \o sorted
         ELSE <<Head(sorted)>> \o InsertSorted(Tail(sorted), x, by_id)

RECURSIVE SortIds(_, _)
SortIds(ids, by_id) ==
    IF ids = <<>> THEN <<>>
    ELSE InsertSorted(SortIds(SubSeq(ids, 1, Len(ids) - 1), by_id),
                      ids[Len(ids)], by_id)

\* children.setdefault(position.parent_position_id, []).append(position.id),
\* then every list sorted by (department, title)
ChildrenMap(lst, by_id) ==
    [ parent \in { lst[i].parent_position_id : i \in DOMAIN lst } |->
        SortIds(IidsOf(SelectSeq(lst, LAMBDA r : r.parent_position_id = parent)),
                by_id) ]

\* children.get(key, [])
ChildrenOf(children, key) ==
    IF key \in DOMAIN children THEN children[key] ELSE <<>>

\* _insert_chart_node: chart_tree.insert(parent_item, END, text=label), then the
\* children below the new item.  An item is its index in chart_tree ("" is 0);
\* `position` records which row the item was drawn for and `level` how deep
\* the call that drew it was nested.
RECURSIVE InsertChartNode(_, _, _, _, _, _)
RECURSIVE InsertChartNodes(_, _, _, _, _, _)
InsertChartNode(tree, node_id, parent_item, by_id, children, depth) ==
    IF tree.error # "" THEN tree
    ELSE IF depth > RecursionLimit
    THEN [tree EXCEPT !.error = "RecursionError"]
    ELSE IF node_id \notin DOMAIN by_id
    THEN [tree EXCEPT !.error = "KeyError"]
    ELSE LET position == by_id[node_id]
             item     == Len(tree.items) + 1
             inserted == [tree EXCEPT !.items =
                            Append(@, [parent   |-> parent_item,
                                       text     |-> Label(position),
                                       position |-> position,
                                       level    |-> depth])]
         IN  InsertChartNodes(inserted, ChildrenOf(children, node_id), item,
                              by_id, children, depth + 1)

\* for child_id in ...: self._insert_chart_node(child_id, item, ...)
InsertChartNodes(tree, ids, parent_item, by_id, children, depth) ==
    IF ids = <<>> THEN tree
    ELSE InsertChartNodes(
             InsertChartNode(tree, Head(ids), parent_item, by_id, children, depth),
             Tail(ids), parent_item, by_id, children, depth)

\* _refresh_chart, once scenario_id is known not to be None: the tree view is
\* emptied and filled from `lst`, the result of list_positions
RefreshChart(lst, cache, root) ==
    LET empty          == [items |-> <<>>, error |-> ""]
        by_id          == [ id \in { lst[i].id : i \in DOMAIN lst } |->
                              CHOOSE r \in { lst[i] : i \in DOMAIN lst } : r.id = id ]
        children       == ChildrenMap(lst, by_id)
        root_selection == strip(root)
    IN  IF lst = <<>> THEN empty
        ELSE IF root_selection # <<>> /\ root_selection # FullOrgChart
        THEN IF Get(cache, root_selection) = NULL
             THEN empty
             ELSE InsertChartNode(empty, Get(cache, root_selection), 0,
                                  by_id, children, 1)
        ELSE InsertChartNodes(empty, ChildrenOf(children, NULL), 0, by_id,
                              children, 1)

\* _refresh_positions: chart_root falls back to the full chart when it is empty
RootAfterRefresh(root) == IF root = <<>> THEN FullOrgChart ELSE root

Outcome(error) == IF error = "" THEN "ok" ELSE error

\* _refresh_positions alone (scenario_id is not None), on the store as the
\* command has left it
refresh_positions(sid) ==
    \E lst \in list_positions(positions', sid) :
        /\ positions_cache' = PositionsCache(lst)
        /\ position_tree' = IidsOf(lst)
        /\ chart_root' = RootAfterRefresh(chart_root)

\* _refresh_all, for the value scenario_id has when it runs
refresh_all(sid, name) ==
    IF sid = NULL
    THEN \E emps \in list_employees(employees) :
            /\ employees_cache' = EmployeesCache(emps)
            /\ employee_tree' = IidsOf(emps)
            /\ last_command' = Command(name, "ok")
            /\ UNCHANGED <<positions_cache, position_tree, chart_root, chart_tree,
                           assignment_tree>>
    ELSE \E lst \in list_positions(positions, sid),
            shown \in list_positions(positions, sid),
            emps \in list_employees(employees),
            asgs \in list_assignments(assignments, positions, sid) :
            LET chart == RefreshChart(shown, PositionsCache(lst),
                                      RootAfterRefresh(chart_root))
            IN  /\ positions_cache' = PositionsCache(lst)
                /\ position_tree' = IidsOf(lst)
                /\ chart_root' = RootAfterRefresh(chart_root)
                /\ chart_tree' = chart.items
                /\ employees_cache' = IF chart.error = "" THEN EmployeesCache(emps)
                                      ELSE employees_cache
                /\ employee_tree' = IF chart.error = "" THEN IidsOf(emps)
                                    ELSE employee_tree
                /\ assignment_tree' = IF chart.error = "" THEN IidsOf(asgs)
                                      ELSE assignment_tree
                /\ last_command' = Command(name, Outcome(chart.error))

\* "Seed 5 Years (Quarterly)": seed, then _refresh_scenarios
seed_quarters ==
    /\ seed_quarter_scenarios(5)
    /\ \E tabs \in list_scenarios(scenarios') :
          /\ scenario_tabs' = IidsOf(tabs)
          /\ IF tabs # <<>>
             THEN /\ scenario_id' = tabs[1].id
                  /\ refresh_all(tabs[1].id, "_seed_quarters")
             ELSE /\ last_command' = Command("_seed_quarters", "ok")
                  /\ UNCHANGED <<scenario_id, positions_cache, employees_cache,
                                 position_tree, employee_tree, assignment_tree,
                                 chart_root, chart_tree>>

\* a click on tab number `tab`
on_scenario_tab_change(tab) ==
    /\ tab \in DOMAIN scenario_tabs
    /\ scenario_id' = scenario_tabs[tab]
    /\ refresh_all(scenario_tabs[tab], "_on_scenario_tab_change")
    /\ UNCHANGED <<dbvars, today_year, last_call, last_error, scenario_tabs>>

\* "Add" on the Positions tab, with what the three fields hold
shell_add_position(title_text, department_text, parent_text) ==
    IF scenario_id = NULL
    THEN /\ last_command' = Command("_add_position", "Missing scenario")
         /\ UNCHANGED <<dbvars, today_year, last_call, last_error, scenario_id,
                        scenario_tabs, positions_cache, employees_cache,
                        position_tree, employee_tree, assignment_tree,
                        chart_root, chart_tree>>
    ELSE IF strip(title_text) = <<>> \/ strip(department_text) = <<>>
    THEN /\ last_command' = Command("_add_position", "Missing data")
         /\ UNCHANGED <<dbvars, today_year, last_call, last_error, scenario_id,
                        scenario_tabs, positions_cache, employees_cache,
                        position_tree, employee_tree, assignment_tree,
                        chart_root, chart_tree>>
    ELSE /\ add_position(scenario_id, strip(title_text), strip(department_text),
                         combo_value_to_id(parent_text, positions_cache))
         /\ IF last_error' = ""
            THEN /\ refresh_positions(scenario_id)
                 /\ last_command' = Command("_add_position", "ok")
            ELSE /\ last_command' = Command("_add_position", last_error')
                 /\ UNCHANGED <<positions_cache, position_tree, chart_root>>
         /\ UNCHANGED <<scenario_id, scenario_tabs, employees_cache, employee_tree,
                        assignment_tree, chart_tree>>

\* "Delete Selected" on the Positions tab, with the selected row `selected`
shell_delete_position(selected) ==
    /\ selected \in { position_tree[i] : i \in DOMAIN position_tree }
    /\ delete_position(selected)
    /\ IF scenario_id = NULL
       THEN UNCHANGED <<positions_cache, position_tree, chart_root>>
       ELSE refresh_positions(scenario_id)
    /\ last_command' = Command("_delete_position", "ok")
    /\ UNCHANGED <<scenario_id, scenario_tabs, employees_cache, employee_tree,
                   assignment_tree, chart_tree>>

\* the user puts `text` into the "Subchart Root" combo box and presses "View":
\* _refresh_chart
refresh_chart(text) ==
    /\ chart_root' = text
    /\ IF scenario_id = NULL
       THEN /\ last_command' = Command("_refresh_chart", "ok")
            /\ UNCHANGED chart_tree
       ELSE \E lst \in list_positions(positions, scenario_id) :
               LET chart == RefreshChart(lst, positions_cache, text)
               IN  /\ chart_tree' = chart.items
                   /\ last_command' = Command("_refresh_chart", Outcome(chart.error))
    /\ UNCHANGED <<dbvars, today_year, last_call, last_error, scenario_id,
                   scenario_tabs, positions_cache, employees_cache, position_tree,
                   employee_tree, assignment_tree>>

\* _refresh_employees, on the store as the command has left it
refresh_employees ==
    \E emps \in list_employees(employees') :
        /\ employees_cache' = EmployeesCache(emps)
        /\ employee_tree' = IidsOf(emps)

\* "Add" on the Employees tab with the check of the two fields left out
ShellAddEmployeeUnchecked(code_text, name_text) ==
    /\ add_employee(strip(code_text), strip(name_text))
    /\ IF last_error' = ""
       THEN /\ refresh_employees
            /\ last_command' = Command("_add_employee", "ok")
       ELSE /\ last_command' = Command("_add_employee", "Error")
            /\ UNCHANGED <<employees_cache, employee_tree>>
    /\ UNCHANGED <<scenario_id, scenario_tabs, positions_cache, position_tree,
                   assignment_tree, chart_root, chart_tree>>

\* "Add" on the Employees tab, with what the two fields hold
shell_add_employee(code_text, name_text) ==
    IF strip(code_text) = <<>> \/ strip(name_text) = <<>>
    THEN /\ last_command' = Command("_add_employee", "Missing data")
         /\ UNCHANGED <<dbvars, today_year, last_call, last_error, scenario_id,
                        scenario_tabs, positions_cache, employees_cache,
                        position_tree, employee_tree, assignment_tree,
                        chart_root, chart_tree>>
    ELSE /\ add_employee(strip(code_text), strip(name_text))
         /\ IF last_error' = ""
            THEN /\ refresh_employees
                 /\ last_command' = Command("_add_employee", "ok")
            ELSE /\ last_command' = Command("_add_employee", "Error")
                 /\ UNCHANGED <<employees_cache, employee_tree>>
         /\ UNCHANGED <<scenario_id, scenario_tabs, positions_cache, position_tree,
                        assignment_tree, chart_root, chart_tree>>

\* "Save Move" on the Assignments tab, with what the three fields hold
shell_move_employee(employee_text, position_text, start_text) ==
    IF scenario_id = NULL
    THEN /\ last_command' = Command("_move_employee", "Missing scenario")
         /\ UNCHANGED <<dbvars, today_year, last_call, last_error, scenario_id,
                        scenario_tabs, positions_cache, employees_cache,
                        position_tree, employee_tree, assignment_tree,
                        chart_root, chart_tree>>
    ELSE LET employee_id == combo_value_to_id(employee_text, employees_cache)
             position_id == combo_value_to_id(position_text, positions_cache)
             start_date  == strip(start_text)
         IN  IF employee_id = NULL \/ position_id = NULL \/ start_date = <<>>
             THEN /\ last_command' = Command("_move_employee", "Missing data")
                  /\ UNCHANGED <<dbvars, today_year, last_call, last_error,
                                 scenario_id, scenario_tabs, positions_cache,
                                 employees_cache, position_tree, employee_tree,
                                 assignment_tree, chart_root, chart_tree>>
             ELSE /\ move_employee(employee_id, position_id, start_date)
                  /\ IF last_error' = ""
                     THEN \E asgs \in list_assignments(assignments', positions',
                                                       scenario_id) :
                             /\ assignment_tree' = IidsOf(asgs)
                             /\ last_command' = Command("_move_employee", "ok")
                     ELSE /\ last_command' = Command("_move_employee", last_error')
                          /\ UNCHANGED assignment_tree
                  /\ UNCHANGED <<scenario_id, scenario_tabs, positions_cache,
                                 employees_cache, position_tree, employee_tree,
                                 chart_root, chart_tree>>

----------------------------------------------------------------------------
(* Specifications *)

\* Database() on a fresh file: four empty tables; the shell is not started
Init ==
    /\ scenarios = {}
    /\ positions = {}
    /\ employees = {}
    /\ assignments = {}
    /\ sqlite_sequence = [scenarios |-> 0, positions |-> 0,
                          employees |-> 0, assignments |-> 0]
    /\ today_year = FirstYear
    /\ last_call = Call("Database", <<>>)
    /\ last_error = ""
    /\ scenario_id = NULL
    /\ scenario_tabs = <<>>
    /\ positions_cache = [t \in {} |-> NULL]
    /\ employees_cache = [t \in {} |-> NULL]
    /\ position_tree = <<>>
    /\ employee_tree = <<>>
    /\ assignment_tree = <<>>
    /\ chart_root = FullOrgChart
    /\ chart_tree = <<>>
    /\ last_command = Command("__init__", "ok")
    /\ conns = [c \in Connections |-> Idle]
    /\ write_lock = NoConnection
    /\ last_start = [e \in EmployeeArgs |-> <<>>]
    /\ entries = <<>>

\* The assignment ledger through the Database methods that keep it
Seed ==
    /\ seed_quarter_scenarios(1)
    /\ UNCHANGED <<shellvars, auxvars>>

AddPosition ==
    /\ NextId(sqlite_sequence, "positions") \in PositionArgs
    /\ \E sid \in ScenarioArgs \cap Ids(scenarios) :
          add_position(sid, <<65>>, <<88>>, NULL)
    /\ UNCHANGED <<shellvars, auxvars>>

AddEmployee ==
    /\ NextId(sqlite_sequence, "employees") \in EmployeeArgs
    /\ \E code \in EmployeeCodes, name \in FullNames :
          /\ \A r \in employees : r.employee_code # code
          /\ add_employee(code, name)
    /\ UNCHANGED <<shellvars, auxvars>>

Move ==
    /\ sqlite_sequence.assignments < MaxAssignments
    /\ \E e \in Ids(employees), p \in {NULL} \cup Ids(positions), d \in StartDates :
          move_employee(e, p, d)
    /\ UNCHANGED <<shellvars, auxvars>>

DeletePosition ==
    /\ \E p \in PositionArgs : delete_position(p)
    /\ UNCHANGED <<shellvars, auxvars>>

DeleteEmployee ==
    /\ \E e \in EmployeeArgs : delete_employee(e)
    /\ UNCHANGED <<shellvars, auxvars>>

DeleteAssignment ==
    /\ \E a \in 1..MaxAssignments : delete_assignment(a)
    /\ UNCHANGED <<shellvars, auxvars>>

Next ==
    \/ Seed
    \/ AddPosition
    \/ AddEmployee
    \/ Move
    \/ DeletePosition
    \/ DeleteEmployee
    \/ DeleteAssignment

Spec == Init /\ [][Next]_vars

\* Seeding, called with any `years`, while the calendar moves on
SeedYears ==
    /\ \E years \in 0..MaxYears : seed_quarter_scenarios(years)
    /\ UNCHANGED <<shellvars, auxvars>>

TurnOfYear ==
    /\ NewYear
    /\ UNCHANGED <<shellvars, auxvars>>

NextSeed ==
    \/ SeedYears
    \/ TurnOfYear

SpecSeed == Init /\ [][NextSeed]_vars

\* The Database methods called with ids of the caller's choosing, whether or
\* not a row carries them
ApiScenarioArgs == { 1, 5 }      \* seeding one year creates the ids 1..4

ApiSeed ==
    /\ scenarios = {}
    /\ seed_quarter_scenarios(1)
    /\ UNCHANGED <<shellvars, auxvars>>

ApiAddPosition ==
    /\ sqlite_sequence.positions < MaxPositions
    /\ \E sid \in ApiScenarioArgs : add_position(sid, <<65>>, <<88>>, NULL)
    /\ UNCHANGED <<shellvars, auxvars>>

ApiAddEmployee ==
    /\ sqlite_sequence.employees = 0
    /\ add_employee(<<69, 49>>, <<65, 110, 110>>)
    /\ UNCHANGED <<shellvars, auxvars>>

ApiAddAssignment ==
    /\ sqlite_sequence.assignments < MaxAssignments
    /\ \E d \in StartDates, end \in {NULLTEXT, isoformat(date(2024, 4, 1))} :
          add_assignment(1, 1, d, end)
    /\ UNCHANGED <<shellvars, auxvars>>

ApiMove ==
    /\ sqlite_sequence.assignments < MaxAssignments
    /\ \E d \in StartDates : move_employee(1, 1, d)
    /\ UNCHANGED <<shellvars, auxvars>>

NextApi ==
    \/ ApiSeed
    \/ ApiAddPosition
    \/ ApiAddEmployee
    \/ ApiAddAssignment
    \/ ApiMove

SpecApi == Init /\ [][NextApi]_vars

\* The ledger of one employee over positions of two scenarios, as
\* list_assignments sees it
LedgerScenarioArgs == { 1, 2 }

LedgerAddPosition ==
    /\ sqlite_sequence.positions < MaxPositions
    /\ \E sid \in LedgerScenarioArgs \cap Ids(scenarios) :
          add_position(sid, <<65>>, <<88>>, NULL)
    /\ UNCHANGED <<shellvars, auxvars>>

LedgerMove ==
    /\ sqlite_sequence.assignments < MaxMoves
    /\ \E e \in Ids(employees), p \in Ids(positions), d \in StartDates :
          move_employee(e, p, d)
    /\ UNCHANGED <<shellvars, auxvars>>

NextLedger ==
    \/ ApiSeed
    \/ ApiAddEmployee
    \/ LedgerAddPosition
    \/ LedgerMove
    \/ DeletePosition

SpecLedger == Init /\ [][NextLedger]_vars

\* Moves running at the same time, each on its own connection
InProgress == { c \in Connections : conns[c].pc = "updated" }

ConcurrentUpdate ==
    /\ sqlite_sequence.assignments + Cardinality(InProgress) < MaxAssignments
    /\ \E c \in Connections, e \in Ids(employees),
          p \in {NULL} \cup Ids(positions), d \in StartDates :
          move_update(c, e, p, d)
    /\ UNCHANGED <<shellvars, last_start, entries>>

ConcurrentBusy ==
    /\ \E c \in Connections, e \in Ids(employees),
          p \in {NULL} \cup Ids(positions), d \in StartDates :
          move_busy(c, e, p, d)
    /\ UNCHANGED <<shellvars, last_start, entries>>

ConcurrentInsert ==
    /\ \E c \in Connections : move_insert(c)
    /\ UNCHANGED <<shellvars, last_start, entries>>

NextConcurrent ==
    \/ ApiSeed
    \/ ApiAddEmployee
    \/ AddPosition
    \/ ConcurrentUpdate
    \/ ConcurrentBusy
    \/ ConcurrentInsert

SpecConcurrent == Init /\ [][NextConcurrent]_vars

\* The ledger under callers who never move an employee to a date before the
\* employee's previous move
TimelineAddPosition ==
    /\ sqlite_sequence.positions = 0
    /\ \E sid \in ScenarioArgs \cap Ids(scenarios) :
          add_position(sid, <<65>>, <<88>>, NULL)
    /\ UNCHANGED <<shellvars, auxvars>>

\* the employees "E1" and "E2", in this order
TimelineAddEmployee ==
    /\ NextId(sqlite_sequence, "employees") \in EmployeeArgs
    /\ add_employee(<<69>> \o Decimal(NextId(sqlite_sequence, "employees")),
                    <<65, 110, 110>>)
    /\ UNCHANGED <<shellvars, auxvars>>

TimelineMove ==
    /\ sqlite_sequence.assignments < MaxMoves
    /\ \E e \in Ids(employees) \cap EmployeeArgs, p \in Ids(positions),
          d \in StartDates :
          /\ ~TextLess(d, last_start[e])
          /\ move_employee(e, p, d)
          /\ last_start' = [last_start EXCEPT ![e] = d]
    /\ UNCHANGED <<shellvars, conns, write_lock, entries>>

TimelineDelete ==
    /\ \E a \in 1..MaxMoves : delete_assignment(a)
    /\ UNCHANGED <<shellvars, auxvars>>

NextTimeline ==
    \/ ApiSeed
    \/ TimelineAddPosition
    \/ TimelineAddEmployee
    \/ TimelineMove
    \/ TimelineDelete

SpecTimeline == Init /\ [][NextTimeline]_vars

\* The employee directory, called with any code, taken or not
DirectoryNames == FullNames \cup { <<66, 111, 98>> }             \* "Ann", "Bob"

DirectoryAdd ==
    /\ sqlite_sequence.employees < MaxEmployees
    /\ \E code \in EmployeeCodes, name \in DirectoryNames : add_employee(code, name)
    /\ UNCHANGED <<shellvars, auxvars>>

DirectoryDelete ==
    /\ \E e \in 1..MaxEmployees : delete_employee(e)
    /\ UNCHANGED <<shellvars, auxvars>>

NextDirectory ==
    \/ DirectoryAdd
    \/ DirectoryDelete

SpecDirectory == Init /\ [][NextDirectory]_vars

\* The shell: seeding, the scenario tabs, the Positions tab, the Org Chart tab
PositionForms   == { << <<65>>, <<89, 32>> >>,           \* title "A", department "Y "
                     << <<32, 66>>, <<88>> >> }          \* " B", "X"
ParentTexts     == { <<>>, <<65>>, <<66, 32>> }          \* "", "A", "B "
RootTexts       == { FullOrgChart, <<>>, <<65>>, <<32, 66>> }
TabArgs         == { 1, 2 }

\* main() seeds once, before the window opens
ShellSeed ==
    /\ scenarios = {}
    /\ seed_quarters
    /\ UNCHANGED auxvars

ShellTab ==
    /\ \E tab \in TabArgs : on_scenario_tab_change(tab)
    /\ UNCHANGED auxvars

ShellAddPosition ==
    /\ sqlite_sequence.positions < MaxPositions
    /\ \E form \in PositionForms, parent \in ParentTexts :
          shell_add_position(form[1], form[2], parent)
    /\ UNCHANGED auxvars

ShellDeletePosition ==
    /\ \E selected \in 1..MaxPositions : shell_delete_position(selected)
    /\ UNCHANGED auxvars

ShellView ==
    /\ \E text \in RootTexts : refresh_chart(text)
    /\ UNCHANGED auxvars

NextShell ==
    \/ ShellSeed
    \/ ShellTab
    \/ ShellAddPosition
    \/ ShellDeletePosition
    \/ ShellView

SpecShell == Init /\ [][NextShell]_vars

\* The org chart over positions written by any caller of add_position, who
\* may name as parent an id that a later position gets
ChartParentArgs == { NULL, 1, 2 }

ChartAddPosition ==
    /\ sqlite_sequence.positions < MaxPositions
    /\ \E sid \in ScenarioArgs \cap Ids(scenarios), title \in Titles,
          parent \in ChartParentArgs :
          add_position(sid, title, <<88>>, parent)
    /\ UNCHANGED <<shellvars, auxvars>>

NextChart ==
    \/ ShellSeed
    \/ ChartAddPosition
    \/ ShellTab
    \/ ShellView

SpecChart == Init /\ [][NextChart]_vars

\* The entry forms of the shell: what the user has typed when "Add" or "Save
\* Move" is pressed, complete or not
PositionEntries == { << <<65>>, <<88>> >>,               \* title "A", department "X"
                     << <<>>, <<88>> >>,                 \* "", "X"
                     << <<65>>, <<32>> >> }              \* "A", " "
EmployeeEntries == { << <<69, 49>>, <<65, 110, 110>> >>, \* code "E1", name "Ann"
                     << <<32>>, <<65, 110, 110>> >>,     \* " ", "Ann"
                     << <<69, 49>>, <<>> >> }            \* "E1", ""
MoveEmployees   == { <<65, 110, 110>>, <<66, 111, 98>> } \* "Ann", "Bob"
MovePositions   == { <<65>>, <<32>> }                    \* "A", " "
MoveStarts      == { isoformat(date(2024, 1, 1)), <<>> }

FormsAddPosition ==
    /\ sqlite_sequence.positions < MaxPositions
    /\ \E e \in PositionEntries :
          /\ shell_add_position(e[1], e[2], <<>>)
          /\ entries' = <<e[1], e[2], <<>>>>
    /\ UNCHANGED <<conns, write_lock, last_start>>

FormsAddEmployee ==
    /\ sqlite_sequence.employees < MaxEmployees
    /\ \E e \in EmployeeEntries :
          /\ shell_add_employee(e[1], e[2])
          /\ entries' = <<e[1], e[2]>>
    /\ UNCHANGED <<conns, write_lock, last_start>>

FormsMove ==
    /\ sqlite_sequence.assignments < MaxAssignments
    /\ \E e \in MoveEmployees, p \in MovePositions, d \in MoveStarts :
          /\ shell_move_employee(e, p, d)
          /\ entries' = <<e, p, d>>
    /\ UNCHANGED <<conns, write_lock, last_start>>

NextForms ==
    \/ ShellSeed
    \/ FormsAddPosition
    \/ FormsAddEmployee
    \/ FormsMove

SpecForms == Init /\ [][NextForms]_vars

\* Moves of two employees, in any order of dates, some of them refused
FrameMove ==
    /\ sqlite_sequence.assignments < MaxLedger
    /\ \E e \in Ids(employees), p \in {NULL} \cup Ids(positions), d \in StartDates :
          move_employee(e, p, d)
    /\ UNCHANGED <<shellvars, auxvars>>

NextFrame ==
    \/ ApiSeed
    \/ TimelineAddPosition
    \/ TimelineAddEmployee
    \/ FrameMove

SpecFrame == Init /\ [][NextFrame]_vars

----------------------------------------------------------------------------
(* The assignment ledger *)

OpenOf(rows, e) == { a \in rows : a.employee_id = e /\ a.end_date = NULLTEXT }

\* C1: from the empty store, whatever move, delete_assignment, delete_employee
\* and delete_position calls are made, no employee has two assignments whose
\* end_date is null.
AtMostOneOpen ==
    \A a \in assignments : Cardinality(OpenOf(assignments, a.employee_id)) <= 1

\* an employee who was moved while holding an open assignment: one closed row,
\* one open row
MovedTwice ==
    \E a, b \in assignments :
        /\ a.employee_id = b.employee_id
        /\ a.end_date # NULLTEXT
        /\ b.end_date = NULLTEXT

\* C2: a move(e, p, d) that returns leaves e with exactly one open assignment,
\* bound to p and starting on d, and every assignment of e that was open before
\* the call has end_date = d afterwards.
MovePostcondition ==
    [][ (last_call'.op = "move_employee" /\ last_error' = "") =>
          LET e == last_call'.args[1]
              p == last_call'.args[2]
              d == last_call'.args[3]
          IN  /\ Cardinality(OpenOf(assignments', e)) = 1
              /\ \A a \in OpenOf(assignments', e) :
                    a.position_id = p /\ a.start_date = d
              /\ \A a \in OpenOf(assignments, e) :
                    \E b \in assignments' : b.id = a.id /\ b.end_date = d
    ]_vars

\* move(e, p1, d1) then move(e, p2, d2) with p1 # p2, d1 # d2 has just returned
MoveAfterMove ==
    /\ last_call.op = "move_employee"
    /\ last_error = ""
    /\ \E a, b \in assignments :
          /\ a.employee_id = last_call.args[1] /\ b.employee_id = last_call.args[1]
          /\ a.position_id # last_call.args[2]
          /\ a.start_date # last_call.args[3]
          /\ a.end_date = last_call.args[3]
          /\ b.position_id = last_call.args[2]
          /\ b.end_date = NULLTEXT

\* C3: a move whose insert fails (here: no position id) raises IntegrityError to
\* the caller and leaves every table and counter as before the call; and no
\* step of the program closes an open assignment without the same step adding
\* a new open assignment for that employee.
MoveAtomic ==
    [][ /\ (last_call'.op = "move_employee" /\ last_call'.args[2] = NULL) =>
              /\ last_error' = "IntegrityError"
              /\ UNCHANGED dbvars
        /\ (last_call'.op = "move_employee" /\ last_error' # "") =>
              UNCHANGED dbvars
        /\ \A a \in assignments :
              (/\ a.end_date = NULLTEXT
               /\ \E b \in assignments' : b.id = a.id /\ b.end_date # NULLTEXT)
              => \E c \in assignments' :
                    /\ c.id \notin Ids(assignments)
                    /\ c.employee_id = a.employee_id
                    /\ c.end_date = NULLTEXT
    ]_vars

\* a move for an employee who holds an open assignment has just failed, and the
\* assignment is still open
FailedMoveKeptOpen ==
    /\ last_call.op = "move_employee"
    /\ last_error = "IntegrityError"
    /\ OpenOf(assignments, last_call.args[1]) # {}

\* C5: after delete_employee(e) no assignment with employee_id = e is left.
DeleteEmployeeCascades ==
    last_call.op = "delete_employee" =>
        \A a \in assignments : a.employee_id # last_call.args[1]

\* C6: after delete_position(p) no assignment with position_id = p is left, and
\* in every state each assignment references an existing position.
DeletePositionCascades ==
    /\ last_call.op = "delete_position" =>
          \A a \in assignments : a.position_id # last_call.args[1]
    /\ \A a \in assignments : a.position_id \in Ids(positions)

----------------------------------------------------------------------------
(* Seeding *)

\* "YYYY-MM-DD" written digit by digit
IsoText(y, m, d) ==
    << 48 + (y \div 1000), 48 + ((y \div 100) % 10), 48 + ((y \div 10) % 10),
       48 + (y % 10), 45, 48 + (m \div 10), 48 + (m % 10), 45,
       48 + (d \div 10), 48 + (d % 10) >>

\* "FY{year} Q{quarter}" written digit by digit
FYText(y, q) ==
    << 70, 89, 48 + (y \div 1000), 48 + ((y \div 100) % 10),
       48 + ((y \div 10) % 10), 48 + (y % 10), 32, 81, 48 + q >>

\* C7: a seed call leaves every scenario that was present as it was (same id,
\* name and dates), leaves no two rows for one (year, quarter), and running the
\* same seed again in the same calendar year changes nothing.
SeedIdempotent ==
    [][ (last_call'.op = "seed_quarter_scenarios" /\ today_year' = today_year) =>
          /\ scenarios \subseteq scenarios'
          /\ \A s, t \in scenarios' :
                (s.year = t.year /\ s.quarter = t.quarter) => s = t
          /\ \A s, t \in scenarios' : s.id = t.id => s = t
          /\ LET again == SeedResult(scenarios', sqlite_sequence'.scenarios,
                                     today_year', last_call'.args[1])
             IN  again.rows = scenarios'
    ]_vars

\* seed(1) has just returned in a year whose quarters, and those of the next
\* year, were already in the store
SeededAgain ==
    /\ last_call = Call("seed_quarter_scenarios", <<1, today_year>>)
    /\ \E s, t \in scenarios : s.year = today_year /\ t.year = today_year + 1

\* C8: on the empty store seed(years) in calendar year Y creates exactly 4*years
\* scenarios, one per (year, quarter) with year in Y..Y+years-1, quarter in 1..4,
\* named "FY{year} Q{quarter}", starting on the first day of month 3*(quarter-1)+1
\* and ending on the first day of the month after the quarter (1 January of
\* year+1 for Q4), so that a quarter ends on the day the next one starts.
SeedOnEmptyStore ==
    [][ (/\ scenarios = {}
         /\ last_call'.op = "seed_quarter_scenarios"
         /\ today_year' = today_year) =>
          LET years == last_call'.args[1]
              Y     == last_call'.args[2]
          IN  /\ Cardinality(scenarios') = 4 * years
              /\ \A s \in scenarios' :
                    /\ s.year \in Y..(Y + years - 1)
                    /\ s.quarter \in 1..4
                    /\ s.name = FYText(s.year, s.quarter)
                    /\ s.start_date = IsoText(s.year, 3 * (s.quarter - 1) + 1, 1)
                    /\ s.end_date = IF s.quarter = 4
                                    THEN IsoText(s.year + 1, 1, 1)
                                    ELSE IsoText(s.year, 3 * s.quarter + 1, 1)
              /\ \A y \in Y..(Y + years - 1), q \in 1..4 :
                    \E s \in scenarios' : s.year = y /\ s.quarter = q
              /\ \A s, t \in scenarios' :
                    (\/ (t.year = s.year /\ t.quarter = s.quarter + 1)
                     \/ (t.year = s.year + 1 /\ s.quarter = 4 /\ t.quarter = 1))
                    => s.end_date = t.start_date
              /\ \A s \in scenarios' :
                    (s.year = 2024 /\ s.quarter = 4) =>
                        /\ s.name = <<70, 89, 50, 48, 50, 52, 32, 81, 52>>
                        /\ s.start_date = <<50, 48, 50, 52, 45, 49, 48, 45, 48, 49>>
                        /\ s.end_date = <<50, 48, 50, 53, 45, 48, 49, 45, 48, 49>>
    ]_vars

\* the store holds exactly what seed(MaxYears) created in the first year
SeededFromEmpty ==
    /\ last_call = Call("seed_quarter_scenarios", <<MaxYears, FirstYear>>)
    /\ Cardinality(scenarios) = 4 * MaxYears
    /\ sqlite_sequence.scenarios = 4 * MaxYears
    /\ \A s \in scenarios : s.id = 4 * (s.year - FirstYear) + s.quarter

----------------------------------------------------------------------------
(* Positions and the org chart *)

\* C4: delete_position(p) removes only the row p, and every position whose
\* parent_position_id was p is still there afterwards with parent_position_id
\* null.
DeletePositionClearsChildren ==
    [][ \A p \in Ids(positions) :
          last_call' = Call("delete_position", <<p>>) =>
              positions' = { IF r.parent_position_id = p
                             THEN [r EXCEPT !.parent_position_id = NULL]
                             ELSE r : r \in { q \in positions : q.id # p } }
    ]_vars

PositionsOf(sid) == { r \in positions : r.scenario_id = sid }

\* b does not come before a in ascending (department, title) order
InOrder(a, b) ==
    \/ TextLess(a.department, b.department)
    \/ a.department = b.department /\ ~TextLess(b.title, a.title)

\* C9: for every scenario list_positions returns exactly the scenario's
\* positions, each once, in ascending (department, title) order; the Positions
\* tab shows them in that order; and in the org chart any two items under the
\* same parent (the top level included) stand in (department, title) order.
PositionsInOrder ==
    /\ \A sid \in Ids(scenarios) :
          \A lst \in list_positions(positions, sid) :
              /\ { lst[i] : i \in DOMAIN lst } = PositionsOf(sid)
              /\ Len(lst) = Cardinality(PositionsOf(sid))
              /\ \A i, j \in DOMAIN lst : i < j => InOrder(lst[i], lst[j])
    /\ scenario_id # NULL =>
          /\ { position_tree[i] : i \in DOMAIN position_tree }
                = Ids(PositionsOf(scenario_id))
          /\ \A i, j \in DOMAIN position_tree :
                i < j => InOrder(Row(positions, position_tree[i]),
                                 Row(positions, position_tree[j]))
    /\ \A i, j \in DOMAIN chart_tree :
          (i < j /\ chart_tree[i].parent = chart_tree[j].parent) =>
              InOrder(chart_tree[i].position, chart_tree[j].position)

\* two positions of one scenario that were inserted against the order, listed
\* and drawn side by side at the top level in (department, title) order
SiblingsReordered ==
    /\ last_command = Command("_refresh_chart", "ok")
    /\ position_tree = <<2, 1>>
    /\ Len(chart_tree) = 2
    /\ chart_tree[1].parent = 0 /\ chart_tree[1].position.id = 2
    /\ chart_tree[2].parent = 0 /\ chart_tree[2].position.id = 1
    /\ TextLess(chart_tree[1].position.department,
                chart_tree[2].position.department)
    /\ TextLess(chart_tree[2].position.title, chart_tree[1].position.title)

\* the commands that end by drawing the chart
Rendering == { "_seed_quarters", "_on_scenario_tab_change", "_refresh_chart" }

TopLevel == { chart_tree[i].position :
                i \in { k \in DOMAIN chart_tree : chart_tree[k].parent = 0 } }

Drawn == { chart_tree[i].position : i \in DOMAIN chart_tree }

\* the chart is made of positions of the scenario, each drawn once, labelled
\* "{title} ({department})", every nested item under the item of its parent
\* position, and every child of a drawn position drawn too
ChartNested ==
    /\ Drawn \subseteq PositionsOf(scenario_id)
    /\ Cardinality(Drawn) = Len(chart_tree)
    /\ \A i \in DOMAIN chart_tree :
          LET item == chart_tree[i]
          IN  /\ item.text = item.position.title \o <<32, 40>>
                               \o item.position.department \o <<41>>
              /\ item.parent \in 0..(i - 1)
              /\ item.parent # 0 =>
                    chart_tree[item.parent].position.id
                        = item.position.parent_position_id
    /\ \A r \in PositionsOf(scenario_id) :
          r.parent_position_id \in Ids(Drawn) => r \in Drawn

\* C10: after a command that draws the chart: with no root title or with the
\* sentinel the top-level items are exactly the scenario's positions without a
\* parent; with a root title that a position of the scenario carries there is
\* one top-level item and it carries that title; with any other root title
\* the chart is empty; in each case the descendants are nested under their
\* parents and every item is labelled "{title} ({department})".
ChartCorrect ==
    (last_command.name \in Rendering /\ scenario_id # NULL) =>
        LET root_title == strip(chart_root)
        IN  /\ last_command.outcome = "ok"
            /\ ChartNested
            /\ IF root_title = <<>> \/ root_title = FullOrgChart
               THEN TopLevel = { r \in PositionsOf(scenario_id) :
                                    r.parent_position_id = NULL }
               ELSE IF \E r \in PositionsOf(scenario_id) : r.title = root_title
               THEN /\ Cardinality(TopLevel) = 1
                    /\ \A r \in TopLevel : r.title = root_title
               ELSE chart_tree = <<>>

\* "View" with the title of a position that has a child: the subtree is drawn
SubtreeDrawn ==
    /\ last_command = Command("_refresh_chart", "ok")
    /\ strip(chart_root) = <<65>>
    /\ Len(chart_tree) = 2
    /\ chart_tree[1].parent = 0 /\ chart_tree[1].position.title = <<65>>
    /\ chart_tree[2].parent = 1
    /\ chart_tree[2].position.parent_position_id = chart_tree[1].position.id

----------------------------------------------------------------------------
(* The employee directory *)

\* C11: add_employee with a code that an employee already has raises a
\* constraint violation and leaves the employees as they are (with a code no
\* employee has it returns and adds one row carrying the code); and in every
\* state no two employees share an employee_code.
DuplicateCodeRejected ==
    /\ [](\A r, q \in employees : r.employee_code = q.employee_code => r = q)
    /\ [][ last_call'.op = "add_employee" =>
             LET code == last_call'.args[1]
             IN  IF \E r \in employees : r.employee_code = code
                 THEN /\ last_error' = "IntegrityError"
                      /\ employees' = employees
                      /\ sqlite_sequence' = sqlite_sequence
                 ELSE /\ last_error' = ""
                      /\ \E r \in employees' :
                            /\ r.employee_code = code
                            /\ employees' = employees \cup {r}
       ]_vars

\* an add with a taken code has just been refused, next to one that went through
DuplicateRefused ==
    /\ last_call.op = "add_employee"
    /\ last_error = "IntegrityError"
    /\ \E r \in employees : r.employee_code = last_call.args[1]
    /\ Cardinality(employees) = 2

----------------------------------------------------------------------------
(* References between the tables *)

\* C12: add_position with a scenario_id no scenario has, and move_employee with
\* an employee_id no employee has or a new_position_id no position has, raise
\* a constraint violation and leave the store as it was.
DanglingReferenceRejected ==
    [][ ( \/ /\ last_call'.op = "add_position"
             /\ last_call'.args[1] \notin Ids(scenarios)
          \/ /\ last_call'.op = "move_employee"
             /\ \/ last_call'.args[1] \notin Ids(employees)
                \/ last_call'.args[2] \notin Ids(positions) )
        => /\ last_error' = "IntegrityError"
           /\ dbvars' = dbvars
    ]_vars

----------------------------------------------------------------------------
(* Deleting *)

\* the table a delete works on, and the id it was called with
DeleteTarget(call, pos, emp, asg) ==
    CASE call.op = "delete_position"   -> pos
      [] call.op = "delete_employee"   -> emp
      [] call.op = "delete_assignment" -> asg

Deletes == { "delete_position", "delete_employee", "delete_assignment" }

\* C13: a delete_position, delete_employee or delete_assignment whose id no row
\* of its table carries raises nothing and leaves the whole store unchanged;
\* and after any delete the id is gone, so that deleting it again is such a
\* call and changes nothing.
DeleteOfMissingIsNoOp ==
    [][ last_call'.op \in Deletes =>
          LET id == last_call'.args[1]
          IN  /\ last_error' = ""
              /\ id \notin Ids(DeleteTarget(last_call', positions, employees,
                                            assignments))
                    => dbvars' = dbvars
              /\ id \notin Ids(DeleteTarget(last_call', positions', employees',
                                            assignments'))
    ]_vars

\* delete_assignment(2) was called on a store that never held an assignment 2
\* and holds another one
DeletedMissingAssignment ==
    /\ last_call = Call("delete_assignment", <<2>>)
    /\ last_error = ""
    /\ sqlite_sequence.assignments = 1
    /\ Cardinality(assignments) = 1

\* C14: delete_assignment(a) removes the row a and nothing else, and changes no
\* row: no assignment that had an end_date is open afterwards, so an employee
\* whose open assignment is deleted has no open assignment left.
DeleteAssignmentOnly ==
    [][ last_call'.op = "delete_assignment" =>
          LET id == last_call'.args[1]
          IN  /\ assignments' = { a \in assignments : a.id # id }
              /\ UNCHANGED <<scenarios, positions, employees, sqlite_sequence>>
              /\ \A a \in assignments' :
                    OpenOf(assignments', a.employee_id)
                        \subseteq OpenOf(assignments, a.employee_id)
    ]_vars

\* the open assignment of an employee was deleted: the employee keeps the
\* closed one and has no open one
DeletedTheOpenOne ==
    /\ last_call = Call("delete_assignment", <<2>>)
    /\ sqlite_sequence.assignments = 2
    /\ \E a \in assignments :
          /\ assignments = {a}
          /\ a.id = 1
          /\ a.end_date # NULLTEXT
          /\ OpenOf(assignments, a.employee_id) = {}

----------------------------------------------------------------------------
(* Listing the assignments *)

\* C15: for every scenario s, list_assignments(s) holds exactly the
\* assignments whose position is a position of s, each once, and an earlier
\* element never has an earlier start_date than a later one.
AssignmentsListed ==
    \A sid \in Ids(scenarios) :
        \A lst \in list_assignments(assignments, positions, sid) :
            LET mine == { a \in assignments :
                            \E r \in positions : /\ r.id = a.position_id
                                                 /\ r.scenario_id = sid }
            IN  /\ { lst[i] : i \in DOMAIN lst } = mine
                /\ Len(lst) = Cardinality(mine)
                /\ \A i, j \in DOMAIN lst :
                      i < j => ~TextLess(lst[i].start_date, lst[j].start_date)

\* three assignments, one of them in another scenario: the list of scenario 1
\* holds the other two, the later one first
ListedTwoOfThree ==
    /\ Cardinality(assignments) = 3
    /\ \E a \in assignments :
          \E r \in positions : r.id = a.position_id /\ r.scenario_id = 2
    /\ \E lst \in list_assignments(assignments, positions, 1) :
          /\ Len(lst) = 2
          /\ lst[1].id > lst[2].id
          /\ TextLess(lst[2].start_date, lst[1].start_date)

----------------------------------------------------------------------------
(* Drawing a hierarchy that is not a forest *)

\* C16: whatever the positions and the selected root, drawing the chart ends
\* with an error or with an empty or partial chart and its recursion is
\* bounded by the hierarchy: no item is nested deeper than the scenario has
\* positions, also when the parent pointers form a cycle.
ChartRecursionBounded ==
    (last_command.name \in Rendering /\ scenario_id # NULL) =>
        \A i \in DOMAIN chart_tree :
            chart_tree[i].level <= Cardinality(PositionsOf(scenario_id))

----------------------------------------------------------------------------
(* Moves on two connections *)

\* C17: with moves running on two connections at once, in every state of every
\* interleaving no employee has two open assignments, and the UPDATE and the
\* INSERT of one move are never interleaved with those of another: at most
\* one connection is between its two statements, and it holds the write lock.
ConcurrentMovesSerialized ==
    /\ \A a \in assignments : Cardinality(OpenOf(assignments, a.employee_id)) <= 1
    /\ Cardinality(InProgress) <= 1
    /\ \A c \in InProgress : write_lock = c

\* connection 1 has closed the employee's open assignment and not yet inserted
\* the new one; a move on the other connection has just been turned away
SecondMoveTurnedAway ==
    /\ conns[1].pc = "updated"
    /\ conns[2].pc = "idle"
    /\ last_call.op = "move_employee"
    /\ last_error = "OperationalError"
    /\ last_call.args[1] = conns[1].args[1]
    /\ \E a \in assignments :
          /\ a.employee_id = conns[1].args[1]
          /\ a.end_date = conns[1].args[3]
    /\ OpenOf(assignments, conns[1].args[1]) = {}

----------------------------------------------------------------------------
(* The ledger under every public operation *)

\* C18: whatever public operations of Database are called, add_assignment
\* with end_date = None among them, no two assignments of one employee are
\* open at the same time.
OneOpenUnderEveryOperation ==
    \A a, b \in assignments :
        (/\ a.employee_id = b.employee_id
         /\ a.end_date = NULLTEXT
         /\ b.end_date = NULLTEXT) => a.id = b.id

----------------------------------------------------------------------------
(* The timeline of an employee *)

\* x starts before y ends; an open assignment never ends
StartsBeforeEnd(x, y) ==
    y.end_date = NULLTEXT \/ TextLess(x.start_date, y.end_date)

\* [start_date, end_date) of a and of b have a day in common
Overlap(a, b) ==
    \A x \in {a, b} : \A y \in {a, b} : StartsBeforeEnd(x, y)

\* C19: when no move of an employee uses a start_date earlier than that of the
\* employee's previous move, then in every state, with moves and
\* delete_assignment calls in any order, every closed assignment has
\* start_date <= end_date and no two assignments of one employee overlap as
\* segments [start_date, end_date), the open one reaching to infinity.
SegmentsDisjoint ==
    /\ \A a \in assignments :
          a.end_date # NULLTEXT => ~TextLess(a.end_date, a.start_date)
    /\ \A a, b \in assignments :
          (a.employee_id = b.employee_id /\ a.id # b.id) => ~Overlap(a, b)

\* an employee moved three times, the last two on the same day: a segment with
\* days, an empty one, and the open one
ThreeSegments ==
    \E a, b, c \in assignments :
        /\ a.employee_id = b.employee_id /\ b.employee_id = c.employee_id
        /\ TextLess(a.start_date, a.end_date)
        /\ b.start_date = a.end_date /\ b.end_date = b.start_date
        /\ c.start_date = b.end_date /\ c.end_date = NULLTEXT
        /\ last_start[c.employee_id] = c.start_date

----------------------------------------------------------------------------
(* The parent pointers *)

\* following parent_position_id from the position `id`, at most `steps` times,
\* comes to the position `target`
RECURSIVE ReportsTo(_, _, _)
ReportsTo(id, target, steps) ==
    /\ steps > 0
    /\ id \in Ids(positions)
    /\ LET parent == Row(positions, id).parent_position_id
       IN  parent # NULL /\ (parent = target \/ ReportsTo(parent, target, steps - 1))

\* C20: after any add-position and delete-position commands of the shell, the
\* parent_position_id of every position is null or the id of a position that
\* exists and belongs to the same scenario, and no position reports to itself
\* through any number of parents.
ParentsFormForest ==
    \A r \in positions :
        /\ \/ r.parent_position_id = NULL
           \/ \E q \in positions : /\ q.id = r.parent_position_id
                                   /\ q.scenario_id = r.scenario_id
        /\ ~ReportsTo(r.id, r.id, Cardinality(positions))

----------------------------------------------------------------------------
(* The full chart *)

\* C21: after a command of the shell that draws the chart in full-chart mode
\* (no root title, or the sentinel), each position of the selected scenario
\* stands in the chart exactly once: none is left out and none is drawn twice.
FullChartDrawsEveryPosition ==
    (/\ last_command.name \in Rendering
     /\ scenario_id # NULL
     /\ strip(chart_root) \in { <<>>, FullOrgChart }) =>
        \A r \in PositionsOf(scenario_id) :
            Cardinality({ i \in DOMAIN chart_tree :
                            chart_tree[i].position.id = r.id }) = 1

----------------------------------------------------------------------------
(* The entry forms *)

\* nothing typed, or nothing but spaces
Blank(text) == \A i \in DOMAIN text : text[i] = 32

\* no row listed under that name
NoId(text, mapping) == strip(text) \notin DOMAIN mapping

\* the command ended with a warning, made no call to the store and left every
\* table and counter as it was
Rejected ==
    /\ last_command'.outcome \in { "Missing scenario", "Missing data" }
    /\ last_call' = last_call
    /\ last_error' = last_error
    /\ UNCHANGED dbvars

\* C22: the shell's add-position command with an empty title or department or
\* with no scenario selected, its add-employee command with an empty code or
\* name, and its move command with an employee or position name that resolves
\* to no id or with an empty start date, call no operation of the store and
\* leave the store unchanged.
IncompleteInputRejected ==
    [][ /\ (/\ last_command'.name = "_add_position"
            /\ \/ scenario_id = NULL
               \/ Blank(entries'[1])
               \/ Blank(entries'[2])) => Rejected
        /\ (/\ last_command'.name = "_add_employee"
            /\ \/ Blank(entries'[1])
               \/ Blank(entries'[2])) => Rejected
        /\ (/\ last_command'.name = "_move_employee"
            /\ \/ NoId(entries'[1], employees_cache)
               \/ NoId(entries'[2], positions_cache)
               \/ Blank(entries'[3])) => Rejected
    ]_vars

\* a move for a name no employee has, with a position and a date that are
\* fine, was turned away: the last call to the store is still the earlier one
UnknownEmployeeTurnedAway ==
    /\ last_command = Command("_move_employee", "Missing data")
    /\ employees # {}
    /\ NoId(entries[1], employees_cache)
    /\ ~NoId(entries[2], positions_cache)
    /\ ~Blank(entries[3])
    /\ last_call.op # "move_employee"
    /\ assignments = {}

----------------------------------------------------------------------------
(* What a move leaves alone *)

\* C23: move(e, p, d) changes no assignment of an employee other than e and no
\* assignment of e that was closed (end_date not null) before the call, and
\* it changes no position, employee or scenario row.
MoveFrame ==
    [][ last_call'.op = "move_employee" =>
          LET e == last_call'.args[1]
          IN  /\ \A a \in assignments :
                    (a.employee_id # e \/ a.end_date # NULLTEXT) => a \in assignments'
              /\ \A b \in assignments' : b.employee_id # e => b \in assignments
              /\ UNCHANGED <<scenarios, positions, employees>>
    ]_vars

\* a move of an employee has returned: the row it closed ends on the move's
\* date, an older row of the employee still ends on another date, and the
\* other employee's assignment is still open
MovedBesideOtherRows ==
    /\ last_call.op = "move_employee"
    /\ last_error = ""
    /\ LET e == last_call.args[1]
           d == last_call.args[3]
       IN  /\ \E a \in assignments :
                 a.employee_id = e /\ a.end_date \notin { NULLTEXT, d }
           /\ \E b \in assignments :
                 b.employee_id = e /\ b.end_date = d /\ b.start_date # d
           /\ \E c \in assignments :
                 c.employee_id # e /\ c.end_date = NULLTEXT

====
